---- MODULE Spec2Model ----
(***************************************************************************)
(* Model of mu::midi::CoreMidiInPort                                       *)
(* (src/framework/midi/internal/platform/osx/coremidiinport.cpp).          *)
(*                                                                         *)
(* The port object is the fields of CoreMidiInPort and of its Core struct; *)
(* the CoreMIDI service is the table of sources, the set of sources the    *)
(* input port is bound to, and the result of each OS call, which the OS    *)
(* chooses.  Every public method and the notification callback is one      *)
(* action.  `call` records the last operation (name, argument, result and  *)
(* the object as it was on entry) and `trace` the OS calls and             *)
(* notifications the operation issued, each with the connection fields as  *)
(* they were at that moment.  `threads` is where the caller thread and the *)
(* notification thread stand inside a method when the methods are taken    *)
(* one field access at a time (SpecConc); it stays idle where a method is  *)
(* one step.  `noteInput` is the NotationNoteInput object with the parts   *)
(* of the score it talks to: the input state, the undo stack, and the      *)
(* calls and notifications of its last operation.                          *)
(***************************************************************************)
EXTENDS Integers, Sequences, FiniteSets, TLC

VARIABLES phase, client, inputPort, sourceId, deviceID, m_deviceID, m_running,
          sources, bound, call, trace, threads, noteInput

vars == <<phase, client, inputPort, sourceId, deviceID, m_deviceID, m_running,
          sources, bound, call, trace, threads, noteInput>>

(* Number of distinct endpoint references the OS can hand out. *)
MaxRef == 2

Refs == 1..MaxRef

INT_MAX == 2^30 + (2^30 - 1)

(* Device identifiers callers pass to connect: std::string as a sequence   *)
(* of characters.                                                          *)
DeviceIds ==
    { <<"0">>, <<"1">>, <<"2">>, <<"9", "9">>, <<>>, <<"a">>, <<"1", "x">>,
      <<"-", "1">>, <<" ", "1">>,
      <<"9", "9", "9", "9", "9", "9", "9", "9", "9", "9">> }

Digits == {"0", "1", "2", "3", "4", "5", "6", "7", "8", "9"}

DigitVal(c) ==
    CASE c = "0" -> 0 [] c = "1" -> 1 [] c = "2" -> 2 [] c = "3" -> 3
      [] c = "4" -> 4 [] c = "5" -> 5 [] c = "6" -> 6 [] c = "7" -> 7
      [] c = "8" -> 8 [] c = "9" -> 9

RECURSIVE SkipSpace(_)
SkipSpace(str) ==
    IF str # <<>> /\ Head(str) = " " THEN SkipSpace(Tail(str)) ELSE str

INT_MIN == 0 - INT_MAX - 1

RECURSIVE ParseDigits(_, _, _, _)
(* Consumes the leading decimal digits of str: how many there are and the  *)
(* negated magnitude (so that INT_MIN is representable); `over` when the   *)
(* magnitude exceeds INT_MAX + 1.                                          *)
ParseDigits(str, acc, n, over) ==
    IF str # <<>> /\ Head(str) \in Digits
    THEN LET d    == DigitVal(Head(str))
             fits == ~over /\ acc > INT_MIN \div 10
                     /\ acc * 10 >= INT_MIN + d
         IN  ParseDigits(Tail(str), IF fits THEN acc * 10 - d ELSE INT_MIN,
                         n + 1, ~fits)
    ELSE [negval |-> acc, n |-> n, over |-> over]

(* std::stoi: skips leading white space, takes an optional sign and the    *)
(* longest run of digits, ignores what follows; throws                     *)
(* std::invalid_argument when there is no digit and std::out_of_range      *)
(* when the value does not fit an int.                                     *)
stoi(str) ==
    LET t    == SkipSpace(str)
        neg  == t # <<>> /\ Head(t) = "-"
        sgn  == t # <<>> /\ Head(t) \in {"-", "+"}
        body == IF sgn THEN Tail(t) ELSE t
        p    == ParseDigits(body, 0, 0, FALSE)
    IN  IF p.n = 0 THEN [ok |-> FALSE, val |-> 0, what |-> "invalid_argument"]
        ELSE IF p.over \/ (~neg /\ p.negval = INT_MIN)
             THEN [ok |-> FALSE, val |-> 0, what |-> "out_of_range"]
             ELSE [ok |-> TRUE, val |-> IF neg THEN p.negval ELSE 0 - p.negval,
                   what |-> "none"]

(* ----------------------------- CoreMIDI -------------------------------- *)

(* MIDIGetSource(index): the endpoint at that position of the source       *)
(* table, 0 when there is none (the int index converts to an unsigned      *)
(* ItemCount, so a negative one is out of range).                          *)
MIDIGetSource(tbl, index) ==
    IF index >= 0 /\ index < Len(tbl) THEN tbl[index + 1] ELSE 0

(* MIDIPortConnectSource: the OS may refuse; it refuses a null port and an *)
(* endpoint that does not exist.                                           *)
MIDIPortConnectSource(os, port, src) ==
    IF os = "ok" /\ port # 0 /\ src \in { sources[i] : i \in 1..Len(sources) }
    THEN "noErr" ELSE "error"

(* MIDIPortDisconnectSource: the OS may refuse; otherwise it reports       *)
(* kMIDINoConnection when the port was not bound to the source.            *)
MIDIPortDisconnectSource(os, src, bnd) ==
    IF os = "fail" THEN "error"
    ELSE IF src \in bnd THEN "noErr" ELSE "kMIDINoConnection"

OSResults == {"ok", "fail"}

(* --------------------------- the port object --------------------------- *)

(* The part of the state a method can change, threaded through the         *)
(* operators below.                                                        *)
Self ==
    [sourceId |-> sourceId, deviceID |-> deviceID, m_deviceID |-> m_deviceID,
     m_running |-> m_running, bound |-> bound, trace |-> <<>>, ret |-> "void"]

Log(s, ev, obj, res) ==
    [s EXCEPT !.trace = Append(@, [ev |-> ev, obj |-> obj, res |-> res,
                                   sourceId |-> s.sourceId,
                                   m_deviceID |-> s.m_deviceID,
                                   m_running |-> s.m_running])]

isConnected(s) == s.sourceId # 0 /\ s.m_deviceID # <<>>

(* stop() without the isConnected() guard.                                 *)
stop_noGuard(s, os) ==
    LET result == MIDIPortDisconnectSource(os, s.sourceId, s.bound)
        t      == Log(s, "MIDIPortDisconnectSource", s.sourceId, result)
    IN  [t EXCEPT !.bound = IF result = "noErr" THEN @ \ {s.sourceId} ELSE @,
                  !.m_running = FALSE]

(* stop() that forgets to clear the running flag.                          *)
stop_keepsRunning(s, os) ==
    IF ~isConnected(s)
    THEN Log(s, "LOGE", 0, "midi port is not connected")
    ELSE LET result == MIDIPortDisconnectSource(os, s.sourceId, s.bound)
             t      == Log(s, "MIDIPortDisconnectSource", s.sourceId, result)
         IN  [t EXCEPT !.bound = IF result = "noErr" THEN @ \ {s.sourceId} ELSE @]

stop(s, os) ==
    IF ~isConnected(s)
    THEN Log(s, "LOGE", 0, "midi port is not connected")
    ELSE LET result == MIDIPortDisconnectSource(os, s.sourceId, s.bound)
             t      == Log(s, "MIDIPortDisconnectSource", s.sourceId, result)
         IN  [t EXCEPT !.bound = IF result = "noErr" THEN @ \ {s.sourceId} ELSE @,
                       !.m_running = FALSE]

(* disconnect() that keeps the connection identity when the OS refused    *)
(* the unbind.                                                             *)
disconnect_keepsOnError(s, os) ==
    IF ~isConnected(s)
    THEN s
    ELSE LET t == stop(s, os)
         IN  IF t.trace[Len(t.trace)].res = "error"
             THEN t
             ELSE [t EXCEPT !.sourceId = 0, !.m_deviceID = <<>>]

disconnect(s, os) ==
    IF ~isConnected(s)
    THEN s
    ELSE [stop(s, os) EXCEPT !.sourceId = 0, !.m_deviceID = <<>>]

(* run() that reports success whatever MIDIPortConnectSource returned.     *)
run_ignoresResult(s, os) ==
    IF ~isConnected(s)
    THEN [s EXCEPT !.ret = "MidiNotConnected"]
    ELSE LET result == MIDIPortConnectSource(os, inputPort, s.sourceId)
             t      == Log(s, "MIDIPortConnectSource", s.sourceId, result)
         IN  [t EXCEPT !.bound = IF result = "noErr" THEN @ \cup {s.sourceId} ELSE @,
                       !.m_running = TRUE, !.ret = "Ok"]

(* run() that drops the connection identity when the bind fails.           *)
run_clearsOnFailure(s, os) ==
    IF ~isConnected(s)
    THEN [s EXCEPT !.ret = "MidiNotConnected"]
    ELSE LET result == MIDIPortConnectSource(os, inputPort, s.sourceId)
             t      == Log(s, "MIDIPortConnectSource", s.sourceId, result)
         IN  IF result = "noErr"
             THEN [t EXCEPT !.bound = @ \cup {s.sourceId},
                            !.m_running = TRUE, !.ret = "Ok"]
             ELSE [t EXCEPT !.m_running = FALSE, !.sourceId = 0,
                            !.m_deviceID = <<>>, !.ret = "MidiFailedConnect"]

run(s, os) ==
    IF ~isConnected(s)
    THEN [s EXCEPT !.ret = "MidiNotConnected"]
    ELSE LET result == MIDIPortConnectSource(os, inputPort, s.sourceId)
             t      == Log(s, "MIDIPortConnectSource", s.sourceId, result)
         IN  IF result = "noErr"
             THEN [t EXCEPT !.bound = @ \cup {s.sourceId},
                            !.m_running = TRUE, !.ret = "Ok"]
             ELSE [t EXCEPT !.m_running = FALSE, !.ret = "MidiFailedConnect"]

(* connect() from the std::stoi call on, with the check of the looked-up   *)
(* source optional; shared by the variants of connect() below.            *)
connectTail(s1, id, osB, checkSource) ==
    LET p == stoi(id)
    IN  IF ~p.ok
        THEN [Log(s1, "stoi", 0, p.what) EXCEPT !.ret = "Exception"]
        ELSE LET s2  == [s1 EXCEPT !.deviceID = p.val]
                 src == MIDIGetSource(sources, s2.deviceID)
                 s3  == [Log(s2, "MIDIGetSource", s2.deviceID,
                             IF src = 0 THEN "none" ELSE "found")
                           EXCEPT !.sourceId = src]
             IN  IF checkSource /\ s3.sourceId = 0
                 THEN [s3 EXCEPT !.ret = "MidiFailedConnect"]
                 ELSE run([s3 EXCEPT !.m_deviceID = id], osB)

(* connect() that does not disconnect the old connection first.            *)
connect_noDisconnect(s, id, osU, osB) ==
    IF client = 0 THEN [s EXCEPT !.ret = "MidiFailedConnect"]
    ELSE IF inputPort = 0 THEN [s EXCEPT !.ret = "MidiFailedConnect"]
    ELSE connectTail(s, id, osB, TRUE)

(* connect() that does not return when MIDIGetSource found nothing.        *)
connect_noSourceCheck(s, id, osU, osB) ==
    LET s1 == IF isConnected(s) THEN disconnect(s, osU) ELSE s
    IN  IF client = 0 THEN [s1 EXCEPT !.ret = "MidiFailedConnect"]
        ELSE IF inputPort = 0 THEN [s1 EXCEPT !.ret = "MidiFailedConnect"]
        ELSE connectTail(s1, id, osB, FALSE)

(* connect() that checks the client but not the input port.                *)
connect_noPortCheck(s, id, osU, osB) ==
    LET s1 == IF isConnected(s) THEN disconnect(s, osU) ELSE s
    IN  IF client = 0 THEN [s1 EXCEPT !.ret = "MidiFailedConnect"]
        ELSE connectTail(s1, id, osB, TRUE)

connect(s, id, osU, osB) ==
    LET s1 == IF isConnected(s) THEN disconnect(s, osU) ELSE s
    IN  IF client = 0 THEN [s1 EXCEPT !.ret = "MidiFailedConnect"]
        ELSE IF inputPort = 0 THEN [s1 EXCEPT !.ret = "MidiFailedConnect"]
        ELSE LET p == stoi(id)
             IN  IF ~p.ok
                 THEN [Log(s1, "stoi", 0, p.what) EXCEPT !.ret = "Exception"]
                 ELSE LET s2  == [s1 EXCEPT !.deviceID = p.val]
                          src == MIDIGetSource(sources, s2.deviceID)
                          s3  == [Log(s2, "MIDIGetSource", s2.deviceID,
                                      IF src = 0 THEN "none" ELSE "found")
                                    EXCEPT !.sourceId = src]
                      IN  IF s3.sourceId = 0
                          THEN [s3 EXCEPT !.ret = "MidiFailedConnect"]
                          ELSE run([s3 EXCEPT !.m_deviceID = id], osB)

(* The callback telling the observers before it disconnects.               *)
onCoreMidiNotificationReceived_notifyFirst(s, n, os) ==
    IF n.messageID \in {"kMIDIMsgObjectAdded", "kMIDIMsgObjectRemoved"}
       /\ n.sizeOk /\ n.childType = "kMIDIObjectType_Source"
    THEN LET s1 == Log(s, "devicesChanged", n.child, "notify")
         IN  IF n.messageID = "kMIDIMsgObjectRemoved"
                /\ isConnected(s1) /\ n.child = s1.sourceId
             THEN disconnect(s1, os) ELSE s1
    ELSE s

(* The callback without the test of the child's type.                      *)
onCoreMidiNotificationReceived_anyChild(s, n, os) ==
    IF n.messageID \in {"kMIDIMsgObjectAdded", "kMIDIMsgObjectRemoved"} /\ n.sizeOk
    THEN LET s1 == IF n.messageID = "kMIDIMsgObjectRemoved"
                      /\ isConnected(s) /\ n.child = s.sourceId
                   THEN disconnect(s, os) ELSE s
         IN  Log(s1, "devicesChanged", n.child, "notify")
    ELSE IF n.messageID = "kMIDIMsgPropertyChanged" /\ n.sizeOk
            /\ n.objectType \in {"kMIDIObjectType_Device", "kMIDIObjectType_Source"}
            /\ n.propertyName \in {"kMIDIPropertyDisplayName", "kMIDIPropertyName"}
    THEN Log(s, "devicesChanged", n.child, "notify")
    ELSE s

(* The notification callback registered with MIDIClientCreate.             *)
onCoreMidiNotificationReceived(s, n, os) ==
    CASE n.messageID \in {"kMIDIMsgObjectAdded", "kMIDIMsgObjectRemoved"} ->
           IF ~n.sizeOk
           THEN Log(s, "LOGW", 0, "corrupted MIDIObjectAddRemoveNotification")
           ELSE IF n.childType # "kMIDIObjectType_Source" THEN s
           ELSE LET s1 == IF n.messageID = "kMIDIMsgObjectRemoved"
                             /\ isConnected(s) /\ n.child = s.sourceId
                          THEN disconnect(s, os) ELSE s
                IN  Log(s1, "devicesChanged", n.child, "notify")
      [] n.messageID = "kMIDIMsgPropertyChanged" ->
           IF ~n.sizeOk
           THEN Log(s, "LOGW", 0, "corrupted MIDIObjectPropertyChangeNotification")
           ELSE IF n.objectType \notin {"kMIDIObjectType_Device", "kMIDIObjectType_Source"}
           THEN s
           ELSE IF n.propertyName \in {"kMIDIPropertyDisplayName", "kMIDIPropertyName"}
                THEN Log(s, "devicesChanged", n.child, "notify")
                ELSE s
      [] OTHER -> s

(* The destructor releasing the handles without disconnecting first.      *)
destructor_noDisconnect(s, os) ==
    LET s2 == IF inputPort # 0
              THEN [Log(s, "MIDIPortDispose", inputPort, "noErr") EXCEPT !.bound = {}]
              ELSE s
    IN  IF client # 0 THEN Log(s2, "MIDIClientDispose", client, "noErr") ELSE s2

(* ~CoreMidiInPort(): disconnect if connected, then dispose of the input   *)
(* port and of the client, each if it was created.  Disposing of the port  *)
(* ends its bindings.                                                      *)
destructor(s, os) ==
    LET s1 == IF isConnected(s) THEN disconnect(s, os) ELSE s
        s2 == IF inputPort # 0
              THEN [Log(s1, "MIDIPortDispose", inputPort, "noErr") EXCEPT !.bound = {}]
              ELSE s1
    IN  IF client # 0 THEN Log(s2, "MIDIClientDispose", client, "noErr") ELSE s2

(* --------------------------- packet decoding --------------------------- *)

(* Longest batch the OS delivers in one callback. *)
MaxPackets == 3

(* Word (byte) count and time stamp of the packets the OS delivers: the    *)
(* counts on both sides of the limits 1 and 4.                             *)
PacketShapes ==
    { <<0, 10>>, <<1, 10>>, <<2, 20>>, <<4, 20>>, <<5, 10>>, <<6, 20>> }

(* The input port as created by MIDIInputPortCreateWithProtocol (its       *)
(* callback is receiveBlock) or by MIDIInputPortCreateWithBlock (its       *)
(* callback is readBlock).                                                 *)
ProtocolPort == 1

BlockPort == 2

PortRefs == {ProtocolPort, BlockPort}

(* MIDIEventPacket: wordCount words and a time stamp. *)
EventPackets ==
    { [wordCount |-> p[1], timeStamp |-> p[2],
       words |-> [i \in 1..p[1] |-> p[2] + i]] : p \in PacketShapes }

(* MIDIPacket: length bytes and a time stamp. *)
MIDIPackets ==
    { [length |-> p[1], timeStamp |-> p[2],
       data |-> [i \in 1..p[1] |-> p[2] + i]] : p \in PacketShapes }

RECURSIVE SeqsUpTo(_, _)
SeqsUpTo(S, n) ==
    IF n = 0 THEN { <<>> }
    ELSE LET shorter == SeqsUpTo(S, n - 1)
         IN  shorter \cup { Append(q, x) : q \in shorter, x \in S }

Min(a, b) == IF a < b THEN a ELSE b

(* Event::fromRawData(words, count): the event made of the first count     *)
(* words.                                                                  *)
fromRawData(words, count) == [data |-> SubSeq(words, 1, count)]

(* memcpy of min(4, length) bytes into one word, then                      *)
(* Event::fromMIDI10Package(message).toMIDI20().                           *)
fromMIDI10Package(data, length) == [data |-> SubSeq(data, 1, Min(4, length))]

(* Event::operator bool: a decoded packet is an event.                     *)
EventBool(e) == TRUE

(* The (tick_t) cast of the packet's time stamp.                           *)
tick_t(timeStamp) == timeStamp

RECURSIVE receivePackets(_, _, _)
(* The for loop of receiveBlock over the packets of the list.              *)
receivePackets(s, packets, events) ==
    IF packets = <<>> THEN Log(s, "doEventsRecived", Len(events), events)
    ELSE LET packet == Head(packets)
         IN  IF packet.wordCount # 0 /\ packet.wordCount <= 4
             THEN LET e == fromRawData(packet.words, packet.wordCount)
                  IN  receivePackets(s, Tail(packets),
                          IF EventBool(e)
                          THEN Append(events, <<tick_t(packet.timeStamp), e>>)
                          ELSE events)
             ELSE IF packet.wordCount > 4
             THEN receivePackets(Log(s, "LOGW", packet.wordCount,
                                     "unsupported midi message size"),
                                 Tail(packets), events)
             ELSE receivePackets(s, Tail(packets), events)

RECURSIVE receivePackets_upTo3(_, _, _)
(* The loop accepting only packets of fewer than 4 words.                  *)
receivePackets_upTo3(s, packets, events) ==
    IF packets = <<>> THEN Log(s, "doEventsRecived", Len(events), events)
    ELSE LET packet == Head(packets)
         IN  IF packet.wordCount # 0 /\ packet.wordCount < 4
             THEN receivePackets_upTo3(s, Tail(packets),
                      Append(events, <<tick_t(packet.timeStamp),
                                       fromRawData(packet.words, packet.wordCount)>>))
             ELSE IF packet.wordCount > 4
             THEN receivePackets_upTo3(Log(s, "LOGW", packet.wordCount,
                                           "unsupported midi message size"),
                                       Tail(packets), events)
             ELSE receivePackets_upTo3(s, Tail(packets), events)

RECURSIVE receivePackets_breaks(_, _, _)
(* The loop leaving the batch at the first packet of unsupported size.     *)
receivePackets_breaks(s, packets, events) ==
    IF packets = <<>> THEN Log(s, "doEventsRecived", Len(events), events)
    ELSE LET packet == Head(packets)
         IN  IF packet.wordCount # 0 /\ packet.wordCount <= 4
             THEN receivePackets_breaks(s, Tail(packets),
                      Append(events, <<tick_t(packet.timeStamp),
                                       fromRawData(packet.words, packet.wordCount)>>))
             ELSE IF packet.wordCount > 4
             THEN Log(Log(s, "LOGW", packet.wordCount,
                          "unsupported midi message size"),
                      "doEventsRecived", Len(events), events)
             ELSE receivePackets_breaks(s, Tail(packets), events)

RECURSIVE receivePackets_perPacket(_, _, _)
(* The loop handing every event to the consumer as soon as it is decoded.  *)
receivePackets_perPacket(s, packets, events) ==
    IF packets = <<>> THEN s
    ELSE LET packet == Head(packets)
         IN  IF packet.wordCount # 0 /\ packet.wordCount <= 4
             THEN LET e == <<tick_t(packet.timeStamp),
                             fromRawData(packet.words, packet.wordCount)>>
                  IN  receivePackets_perPacket(
                          Log(s, "doEventsRecived", 1, <<e>>), Tail(packets), events)
             ELSE IF packet.wordCount > 4
             THEN receivePackets_perPacket(Log(s, "LOGW", packet.wordCount,
                                               "unsupported midi message size"),
                                           Tail(packets), events)
             ELSE receivePackets_perPacket(s, Tail(packets), events)

(* receiveBlock accepting only packets of fewer than 4 words.              *)
receiveBlock_upTo3(s, eventList) == receivePackets_upTo3(s, eventList, <<>>)

(* receiveBlock stopping at the first packet of unsupported size.          *)
receiveBlock_breaks(s, eventList) == receivePackets_breaks(s, eventList, <<>>)

(* receiveBlock delivering one event at a time.                            *)
receiveBlock_perPacket(s, eventList) == receivePackets_perPacket(s, eventList, <<>>)

(* The MIDIReceiveBlock of the input port (MIDI 2.0 event lists).          *)
receiveBlock(s, eventList) == receivePackets(s, eventList, <<>>)

RECURSIVE readPackets(_, _, _)
(* The for loop of readBlock over the packets of the list.                 *)
readPackets(s, packets, events) ==
    IF packets = <<>> THEN Log(s, "doEventsRecived", Len(events), events)
    ELSE LET packet == Head(packets)
         IN  IF packet.length # 0 /\ packet.length <= 4
             THEN LET e == fromMIDI10Package(packet.data, packet.length)
                  IN  readPackets(s, Tail(packets),
                          IF EventBool(e)
                          THEN Append(events, <<tick_t(packet.timeStamp), e>>)
                          ELSE events)
             ELSE IF packet.length > 4
             THEN readPackets(Log(s, "LOGW", packet.length,
                                  "unsupported midi message size"),
                              Tail(packets), events)
             ELSE readPackets(s, Tail(packets), events)

(* The MIDIReadBlock of the input port (MIDI 1.0 packet lists).            *)
readBlock(s, packetList) == readPackets(s, packetList, <<>>)

(* ------------------------------ devices() ------------------------------ *)

DigitChar(d) ==
    CASE d = 0 -> "0" [] d = 1 -> "1" [] d = 2 -> "2" [] d = 3 -> "3"
      [] d = 4 -> "4" [] d = 5 -> "5" [] d = 6 -> "6" [] d = 7 -> "7"
      [] d = 8 -> "8" [] d = 9 -> "9"

RECURSIVE to_string_oneBased(_)
(* Identifiers counted from 1.                                             *)
to_string_oneBased(n) ==
    LET m == n + 1
    IN  IF m < 10 THEN <<DigitChar(m)>>
        ELSE Append(to_string_oneBased((m \div 10) - 1), DigitChar(m % 10))

RECURSIVE to_string(_)
(* std::to_string of an unsigned index: its decimal digits.                *)
to_string(n) ==
    IF n < 10 THEN <<DigitChar(n)>>
    ELSE Append(to_string(n \div 10), DigitChar(n % 10))

(* The display name the OS keeps for an endpoint.                          *)
DisplayName(ref) == <<"Keyboard", ref>>

(* What the OS answers for the display name of each endpoint during one    *)
(* devices() call: "error" when the property lookup fails, "long" when     *)
(* the name does not fit the 256-byte buffer, "ok" otherwise.              *)
NameOutcomes == {"ok", "error", "long"}

(* What the uninitialized buffer may hold.                                 *)
Garbage == { <<>>, <<"?">> }

MIDIObjectGetStringProperty(os, ref) ==
    IF os.names[ref] = "error" THEN "error" ELSE "noErr"

(* CFStringGetCString into char name[256]: it returns false and leaves     *)
(* the buffer unfilled when the name does not fit; the result is not       *)
(* checked, so dev.name is then read from the uninitialized buffer.        *)
CFStringGetCString(os, ref) ==
    IF os.names[ref] = "long" THEN os.garbage ELSE DisplayName(ref)

RECURSIVE devicesLoop(_, _, _, _, _)
(* for (sourceIndex = 0; sourceIndex <= sources; sourceIndex++)            *)
devicesLoop(s, sourceIndex, count, os, ret) ==
    IF ~(sourceIndex <= count) THEN [s EXCEPT !.ret = ret]
    ELSE LET sourceRef == MIDIGetSource(sources, sourceIndex)
             s1 == Log(s, "MIDIGetSource", sourceIndex,
                       IF sourceRef = 0 THEN "none" ELSE "found")
         IN  IF sourceRef # 0
             THEN LET result == MIDIObjectGetStringProperty(os, sourceRef)
                      s2 == Log(s1, "MIDIObjectGetStringProperty", sourceRef, result)
                  IN  IF result # "noErr"
                      THEN devicesLoop(
                               Log(s2, "LOGE", sourceRef,
                                   "Can't get property kMIDIPropertyDisplayName"),
                               sourceIndex + 1, count, os, ret)
                      ELSE LET name == CFStringGetCString(os, sourceRef)
                               dev  == [id |-> to_string(sourceIndex), name |-> name]
                           IN  devicesLoop(
                                   Log(s2, "CFStringGetCString", sourceRef,
                                       os.names[sourceRef]),
                                   sourceIndex + 1, count, os, Append(ret, dev))
             ELSE devicesLoop(s1, sourceIndex + 1, count, os, ret)

(* MIDIGetNumberOfSources, then the loop.                                  *)
devices(s, os) == devicesLoop(s, 0, Len(sources), os, <<>>)

(* ------------------------------ actions -------------------------------- *)

Snapshot ==
    [sourceId |-> sourceId, m_deviceID |-> m_deviceID, m_running |-> m_running,
     client |-> client, inputPort |-> inputPort, bound |-> bound,
     sources |-> sources]

NoArg == <<>>

(* The input state of a score nobody has edited yet, the undo stack with   *)
(* no command open, and a NotationNoteInput that has done nothing.         *)
NoteInputConstructed ==
    [is |-> [noteEntryMode |-> FALSE, noteEntryMethod |-> "STEPTIME",
             duration |-> "V_INVALID", accidentalType |-> "NONE",
             rest |-> FALSE, slur |-> 0, string |-> -1],
     undo |-> [open |-> 0, misused |-> FALSE],
     op |-> "NotationNoteInput", log |-> <<>>]

Threads == {"caller", "callback"}

(* A thread that is not inside any method.                                 *)
Idle == [fn |-> "none", pc |-> "idle", ret |-> "done", id |-> <<>>, obj |-> 0,
         result |-> "none"]

(* The object exists: methods and callbacks run only before destruction.   *)
Alive == phase # "destroyed"

(* Writes back what an operation left in the object and records the call.  *)
Return(s, op, arg, osU, osB) ==
    /\ sourceId' = s.sourceId
    /\ deviceID' = s.deviceID
    /\ m_deviceID' = s.m_deviceID
    /\ m_running' = s.m_running
    /\ bound' = s.bound
    /\ trace' = s.trace
    /\ call' = [op |-> op, arg |-> arg, ret |-> s.ret, pre |-> Snapshot,
                osU |-> osU, osB |-> osB]
    /\ threads' = threads
    /\ noteInput' = noteInput

Init ==
    /\ phase = "constructed"
    /\ client = 0
    /\ inputPort = 0
    /\ sourceId = 0
    /\ deviceID = -1
    /\ m_deviceID = <<>>
    /\ m_running = FALSE
    /\ sources \in { <<>>, <<1>>, <<1, 2>> }
    /\ bound = {}
    /\ trace = <<>>
    /\ threads = [t \in Threads |-> Idle]
    /\ noteInput = NoteInputConstructed
    /\ call = [op |-> "CoreMidiInPort", arg |-> NoArg, ret |-> "void",
               pre |-> [sourceId |-> 0, m_deviceID |-> <<>>, m_running |-> FALSE,
                        client |-> 0, inputPort |-> 0, bound |-> {},
                        sources |-> sources],
               osU |-> "ok", osB |-> "ok"]

(* init() -> initCore(): MIDIClientCreate, then the input port (with the   *)
(* protocol API where the OS has it, with the block API otherwise);        *)
(* returns early when the client could not be created.  init() runs once,  *)
(* from the module set-up.                                                 *)
InitCore ==
    /\ phase = "constructed"
    /\ \E osC \in OSResults, osP \in OSResults :
          /\ client' = IF osC = "ok" THEN 1 ELSE 0
          /\ \E port \in PortRefs :
                inputPort' = IF osC = "ok" /\ osP = "ok" THEN port ELSE 0
          /\ call' = [op |-> "init", arg |-> NoArg, ret |-> "void", pre |-> Snapshot,
                      osU |-> osC, osB |-> osP]
    /\ phase' = "inited"
    /\ trace' = <<>>
    /\ UNCHANGED <<sourceId, deviceID, m_deviceID, m_running, sources, bound,
                   threads, noteInput>>

Connect ==
    /\ Alive
    /\ \E id \in DeviceIds, osU \in OSResults, osB \in OSResults :
           /\ Return(connect(Self, id, osU, osB), "connect", id, osU, osB)
           /\ UNCHANGED <<phase, client, inputPort, sources>>

Disconnect ==
    /\ Alive
    /\ \E osU \in OSResults :
           /\ Return(disconnect(Self, osU), "disconnect", NoArg, osU, "ok")
           /\ UNCHANGED <<phase, client, inputPort, sources>>

Run ==
    /\ Alive
    /\ \E osB \in OSResults :
           /\ Return(run(Self, osB), "run", NoArg, "ok", osB)
           /\ UNCHANGED <<phase, client, inputPort, sources>>

Stop ==
    /\ Alive
    /\ \E osU \in OSResults :
           /\ Return(stop(Self, osU), "stop", NoArg, osU, "ok")
           /\ UNCHANGED <<phase, client, inputPort, sources>>

(* devices(): the OS chooses the outcome of each name lookup.  (The run    *)
(* loop turn of line 74 finds nothing pending: notifications are           *)
(* delivered with the change that causes them.)                            *)
Devices ==
    /\ Alive
    /\ \E names \in [{ sources[i] : i \in 1..Len(sources) } -> NameOutcomes],
          garbage \in Garbage :
           /\ Return(devices(Self, [names |-> names, garbage |-> garbage]),
                     "devices", NoArg, "ok", "ok")
           /\ UNCHANGED <<phase, client, inputPort, sources>>

AddRemove(id, ref) ==
    [messageID |-> id, sizeOk |-> TRUE, childType |-> "kMIDIObjectType_Source",
     child |-> ref, objectType |-> "none", propertyName |-> "none"]

Remove(tbl, ref) == SelectSeq(tbl, LAMBDA x : x # ref)

InTable(ref) == \E i \in 1..Len(sources) : sources[i] = ref

Destroy ==
    /\ Alive
    /\ \E osU \in OSResults :
          Return(destructor(Self, osU), "~CoreMidiInPort", NoArg, osU, "ok")
    /\ phase' = "destroyed"
    /\ UNCHANGED <<client, inputPort, sources>>

(* The OS adds a source to its table and, when a client is registered,     *)
(* delivers kMIDIMsgObjectAdded to the callback.                           *)
SourceAdded ==
    \E ref \in Refs :
        /\ ~InTable(ref)
        /\ sources' = Append(sources, ref)
        /\ IF client # 0 /\ Alive
           THEN Return(onCoreMidiNotificationReceived(
                           Self, AddRemove("kMIDIMsgObjectAdded", ref), "ok"),
                       "sourceAdded", <<ref>>, "ok", "ok")
           ELSE UNCHANGED <<sourceId, deviceID, m_deviceID, m_running, bound,
                            trace, call, threads, noteInput>>
        /\ UNCHANGED <<phase, client, inputPort>>

(* The OS removes a source (and with it any binding of the port to it)     *)
(* and, when a client is registered, delivers kMIDIMsgObjectRemoved.       *)
SourceRemoved ==
    \E ref \in Refs, osU \in OSResults :
        /\ InTable(ref)
        /\ sources' = Remove(sources, ref)
        /\ IF client # 0 /\ Alive
           THEN Return(onCoreMidiNotificationReceived(
                           [Self EXCEPT !.bound = @ \ {ref}],
                           AddRemove("kMIDIMsgObjectRemoved", ref), osU),
                       "sourceRemoved", <<ref>>, osU, "ok")
           ELSE /\ bound' = bound \ {ref}
                /\ UNCHANGED <<sourceId, deviceID, m_deviceID, m_running,
                               trace, call, threads, noteInput>>
        /\ UNCHANGED <<phase, client, inputPort>>

ObjectTypes ==
    {"kMIDIObjectType_Source", "kMIDIObjectType_Device", "kMIDIObjectType_Entity"}

PropertyNames ==
    {"kMIDIPropertyDisplayName", "kMIDIPropertyName", "kMIDIPropertyOffline"}

(* The MIDINotification messages the OS can send: messageSize matching the *)
(* message's struct or not, and the fields the callback reads.             *)
Notifications ==
    { [messageID |-> m, sizeOk |-> z, childType |-> t, child |-> r,
       objectType |-> "none", propertyName |-> "none"] :
         m \in {"kMIDIMsgObjectAdded", "kMIDIMsgObjectRemoved"},
         z \in BOOLEAN, t \in ObjectTypes, r \in Refs }
    \cup
    { [messageID |-> "kMIDIMsgPropertyChanged", sizeOk |-> z,
       childType |-> "none", child |-> 0,
       objectType |-> t, propertyName |-> pn] :
         z \in BOOLEAN, t \in ObjectTypes, pn \in PropertyNames }
    \cup
    { [messageID |-> m, sizeOk |-> TRUE, childType |-> "none", child |-> 0,
       objectType |-> "none", propertyName |-> "none"] :
         m \in {"kMIDIMsgSetupChanged", "kMIDIMsgThruConnectionsChanged",
                "kMIDIMsgSerialPortOwnerChanged", "kMIDIMsgIOError"} }

(* A well-formed add or remove of a source: sent by SourceAdded and        *)
(* SourceRemoved, together with the change of the table.                   *)
IsSourceAddRemove(n) ==
    /\ n.messageID \in {"kMIDIMsgObjectAdded", "kMIDIMsgObjectRemoved"}
    /\ n.sizeOk
    /\ n.childType = "kMIDIObjectType_Source"

(* The OS delivers any other notification to the callback of the client.   *)
Notification ==
    /\ Alive
    /\ client # 0
    /\ \E n \in Notifications :
           /\ ~IsSourceAddRemove(n)
           /\ Return(onCoreMidiNotificationReceived(Self, n, "ok"),
                     "notification", <<n>>, "ok", "ok")
           /\ UNCHANGED <<phase, client, inputPort, sources>>

Next ==
    \/ InitCore
    \/ Connect
    \/ Disconnect
    \/ Run
    \/ Stop
    \/ Destroy
    \/ SourceAdded
    \/ SourceRemoved

Spec == Init /\ [][Next]_vars

(* The OS calls the receive callback of a port created with the protocol   *)
(* API with one event list.                                                *)
ReceiveBlock ==
    /\ Alive
    /\ \E eventList \in SeqsUpTo(EventPackets, MaxPackets) :
           /\ inputPort = ProtocolPort
           /\ Return(receiveBlock(Self, eventList), "receiveBlock", eventList, "ok", "ok")
           /\ UNCHANGED <<phase, client, inputPort, sources>>

(* The OS calls the read callback of a port created with the block API     *)
(* with one packet list.                                                   *)
ReadBlock ==
    /\ Alive
    /\ \E packetList \in SeqsUpTo(MIDIPackets, MaxPackets) :
           /\ inputPort = BlockPort
           /\ Return(readBlock(Self, packetList), "readBlock", packetList, "ok", "ok")
           /\ UNCHANGED <<phase, client, inputPort, sources>>

(* The port after init() and a successful connect("0"), on either API.     *)
InitRecv ==
    /\ phase = "inited"
    /\ client = 1
    /\ inputPort \in PortRefs
    /\ sourceId = 1
    /\ deviceID = 0
    /\ m_deviceID = <<"0">>
    /\ m_running = TRUE
    /\ sources = <<1>>
    /\ bound = {1}
    /\ threads = [t \in Threads |-> Idle]
    /\ noteInput = NoteInputConstructed
    /\ trace = << [ev |-> "MIDIGetSource", obj |-> 0, res |-> "found",
                   sourceId |-> 0, m_deviceID |-> <<>>, m_running |-> FALSE],
                  [ev |-> "MIDIPortConnectSource", obj |-> 1, res |-> "noErr",
                   sourceId |-> 1, m_deviceID |-> <<"0">>, m_running |-> FALSE] >>
    /\ call = [op |-> "connect", arg |-> <<"0">>, ret |-> "Ok",
               pre |-> [sourceId |-> 0, m_deviceID |-> <<>>, m_running |-> FALSE,
                        client |-> 1, inputPort |-> inputPort, bound |-> {},
                        sources |-> <<1>>],
               osU |-> "ok", osB |-> "ok"]

NextRecv ==
    \/ ReceiveBlock
    \/ ReadBlock

(* Packet delivery to a connected, running port.                           *)
SpecRecv == InitRecv /\ [][NextRecv]_vars

(* The source table with n sources, the newest first.                      *)
Descending(n) == [i \in 1..n |-> n + 1 - i]

(* The port right after a successful init(), on either API, with up to     *)
(* MaxRef sources present.                                                 *)
InitDevices ==
    /\ phase = "inited"
    /\ client = 1
    /\ inputPort \in PortRefs
    /\ sourceId = 0
    /\ deviceID = -1
    /\ m_deviceID = <<>>
    /\ m_running = FALSE
    /\ sources \in { Descending(n) : n \in 0..MaxRef }
    /\ bound = {}
    /\ threads = [t \in Threads |-> Idle]
    /\ noteInput = NoteInputConstructed
    /\ trace = <<>>
    /\ call = [op |-> "init", arg |-> NoArg, ret |-> "void",
               pre |-> [sourceId |-> 0, m_deviceID |-> <<>>, m_running |-> FALSE,
                        client |-> 0, inputPort |-> 0, bound |-> {},
                        sources |-> sources],
               osU |-> "ok", osB |-> "ok"]

NextDevices ==
    \/ Devices
    \/ Connect

(* Enumeration of the devices and connection by the listed identifiers,    *)
(* over an unchanging source table.                                        *)
SpecDevices == InitDevices /\ [][NextDevices]_vars

NextNotify ==
    \/ Notification
    \/ SourceAdded
    \/ SourceRemoved

(* The notifications of the OS reaching a port that starts out connected   *)
(* and running, and stays so until its source is removed.                  *)
SpecNotify == InitRecv /\ [][NextNotify]_vars

(* ------------------- the methods, one access at a time ------------------ *)
(* The file has no lock: a method called on the caller thread and the      *)
(* notification callback of the OS each advance by one read or write of a  *)
(* field, or one call into the OS, and are interleaved freely.  A thread's *)
(* record holds the method it is in (fn), the statement it is at (pc),     *)
(* where disconnect() returns to (ret), the argument of connect() (id),    *)
(* the removed object of the notification (obj) and the local `result`.    *)

At(t, fn, pc) == threads[t].fn = fn /\ threads[t].pc = pc

Jump(t, th) == threads' = [threads EXCEPT ![t] = th]

Event(ev, obj, res) ==
    [ev |-> ev, obj |-> obj, res |-> res, sourceId |-> sourceId,
     m_deviceID |-> m_deviceID, m_running |-> m_running]

Fields == <<sourceId, deviceID, m_deviceID, m_running>>

(* Where each caller of isConnected() continues with its answer.           *)
AfterIsConnected(th, connected) ==
    CASE th.fn = "connect" ->
           IF connected
           THEN [th EXCEPT !.fn = "disconnect", !.pc = "isConnected.sourceId",
                           !.ret = "connect"]
           ELSE [th EXCEPT !.pc = "handles"]
      [] th.fn = "disconnect" ->
           IF connected
           THEN [th EXCEPT !.fn = "stop", !.pc = "isConnected.sourceId"]
           ELSE IF th.ret = "connect" THEN [th EXCEPT !.fn = "connect", !.pc = "handles"]
           ELSE IF th.ret = "callback" THEN [th EXCEPT !.fn = "callback", !.pc = "notify"]
           ELSE [th EXCEPT !.fn = "none", !.pc = "done"]
      [] th.fn = "stop" ->
           IF connected
           THEN [th EXCEPT !.pc = "unbind"]
           ELSE [th EXCEPT !.fn = "disconnect", !.pc = "clearSourceId"]
      [] th.fn = "run" ->
           IF connected
           THEN [th EXCEPT !.pc = "bind"]
           ELSE [th EXCEPT !.fn = "none", !.pc = "done", !.result = "MidiNotConnected"]
      [] th.fn = "callback" ->
           IF connected
           THEN [th EXCEPT !.pc = "compare"]
           ELSE [th EXCEPT !.pc = "notify"]

(* The caller thread enters connect(id).                                   *)
CallerConnect ==
    \E id \in DeviceIds :
        /\ threads["caller"].pc = "idle"
        /\ Jump("caller", [Idle EXCEPT !.fn = "connect", !.pc = "isConnected.sourceId",
                                       !.id = id])
        /\ UNCHANGED <<noteInput, phase, client, inputPort, Fields, sources, bound, call, trace>>

(* The caller thread enters disconnect().                                  *)
CallerDisconnect ==
    /\ threads["caller"].pc = "idle"
    /\ Jump("caller", [Idle EXCEPT !.fn = "disconnect", !.pc = "isConnected.sourceId"])
    /\ UNCHANGED <<noteInput, phase, client, inputPort, Fields, sources, bound, call, trace>>

(* A source is unplugged: the OS drops it and enters the notification      *)
(* callback with a well-formed source-removed message.                     *)
CallbackRemoved ==
    \E ref \in Refs :
        /\ threads["callback"].pc = "idle"
        /\ InTable(ref)
        /\ sources' = Remove(sources, ref)
        /\ bound' = bound \ {ref}
        /\ Jump("callback", [Idle EXCEPT !.fn = "callback",
                                         !.pc = "isConnected.sourceId", !.obj = ref])
        /\ UNCHANGED <<noteInput, phase, client, inputPort, Fields, call, trace>>

(* isConnected(): the read of m_core->sourceId; a zero handle answers      *)
(* false without looking at m_deviceID.                                    *)
IsConnectedSourceId(t) ==
    /\ threads[t].pc = "isConnected.sourceId"
    /\ Jump(t, IF sourceId = 0
               THEN AfterIsConnected(threads[t], FALSE)
               ELSE [threads[t] EXCEPT !.pc = "isConnected.m_deviceID"])
    /\ UNCHANGED <<noteInput, phase, client, inputPort, Fields, sources, bound, call, trace>>

(* isConnected(): the read of m_deviceID.                                  *)
IsConnectedDeviceID(t) ==
    /\ threads[t].pc = "isConnected.m_deviceID"
    /\ Jump(t, AfterIsConnected(threads[t], m_deviceID # <<>>))
    /\ UNCHANGED <<noteInput, phase, client, inputPort, Fields, sources, bound, call, trace>>

(* stop(): MIDIPortDisconnectSource on the handle the field holds now.     *)
StopUnbind(t) ==
    \E os \in OSResults :
        LET result == MIDIPortDisconnectSource(os, sourceId, bound)
        IN  /\ At(t, "stop", "unbind")
            /\ trace' = Append(trace, Event("MIDIPortDisconnectSource", sourceId, result))
            /\ bound' = IF result = "noErr" THEN bound \ {sourceId} ELSE bound
            /\ Jump(t, [threads[t] EXCEPT !.pc = "clearRunning", !.result = result])
            /\ UNCHANGED <<noteInput, phase, client, inputPort, Fields, sources, call>>

(* stop(): m_running = false; back in disconnect().                        *)
StopClearRunning(t) ==
    /\ At(t, "stop", "clearRunning")
    /\ m_running' = FALSE
    /\ Jump(t, [threads[t] EXCEPT !.fn = "disconnect", !.pc = "clearSourceId"])
    /\ UNCHANGED <<noteInput, phase, client, inputPort, sourceId, deviceID, m_deviceID,
                   sources, bound, call, trace>>

(* disconnect(): m_core->sourceId = 0.                                     *)
DisconnectClearSourceId(t) ==
    /\ At(t, "disconnect", "clearSourceId")
    /\ sourceId' = 0
    /\ Jump(t, [threads[t] EXCEPT !.pc = "clearDeviceID"])
    /\ UNCHANGED <<noteInput, phase, client, inputPort, deviceID, m_deviceID, m_running,
                   sources, bound, call, trace>>

(* disconnect(): m_deviceID.clear(), and the return to whoever called.     *)
DisconnectClearDeviceID(t) ==
    /\ At(t, "disconnect", "clearDeviceID")
    /\ m_deviceID' = <<>>
    /\ Jump(t, AfterIsConnected(threads[t], FALSE))
    /\ UNCHANGED <<noteInput, phase, client, inputPort, sourceId, deviceID, m_running,
                   sources, bound, call, trace>>

(* connect(): the two handle checks; the handles never change after init(). *)
ConnectHandles(t) ==
    /\ At(t, "connect", "handles")
    /\ Jump(t, IF client = 0 \/ inputPort = 0
               THEN [threads[t] EXCEPT !.fn = "none", !.pc = "done",
                                       !.result = "MidiFailedConnect"]
               ELSE [threads[t] EXCEPT !.pc = "stoi"])
    /\ UNCHANGED <<noteInput, phase, client, inputPort, Fields, sources, bound, call, trace>>

(* connect(): m_core->deviceID = std::stoi(deviceID), which may throw.     *)
ConnectStoi(t) ==
    LET p == stoi(threads[t].id)
    IN  /\ At(t, "connect", "stoi")
        /\ deviceID' = IF p.ok THEN p.val ELSE deviceID
        /\ Jump(t, IF p.ok
                   THEN [threads[t] EXCEPT !.pc = "getSource"]
                   ELSE [threads[t] EXCEPT !.fn = "none", !.pc = "done",
                                           !.result = "Exception"])
        /\ UNCHANGED <<noteInput, phase, client, inputPort, sourceId, m_deviceID, m_running,
                       sources, bound, call, trace>>

(* connect(): m_core->sourceId = MIDIGetSource(m_core->deviceID).          *)
ConnectGetSource(t) ==
    /\ At(t, "connect", "getSource")
    /\ sourceId' = MIDIGetSource(sources, deviceID)
    /\ Jump(t, [threads[t] EXCEPT !.pc = "checkSource"])
    /\ UNCHANGED <<noteInput, phase, client, inputPort, deviceID, m_deviceID, m_running,
                   sources, bound, call, trace>>

(* connect(): if (!m_core->sourceId) return the error.                     *)
ConnectCheckSource(t) ==
    /\ At(t, "connect", "checkSource")
    /\ Jump(t, IF sourceId = 0
               THEN [threads[t] EXCEPT !.fn = "none", !.pc = "done",
                                       !.result = "MidiFailedConnect"]
               ELSE [threads[t] EXCEPT !.pc = "setDeviceID"])
    /\ UNCHANGED <<noteInput, phase, client, inputPort, Fields, sources, bound, call, trace>>

(* connect(): m_deviceID = deviceID, then return run().                    *)
ConnectSetDeviceID(t) ==
    /\ At(t, "connect", "setDeviceID")
    /\ m_deviceID' = threads[t].id
    /\ Jump(t, [threads[t] EXCEPT !.fn = "run", !.pc = "isConnected.sourceId"])
    /\ UNCHANGED <<noteInput, phase, client, inputPort, sourceId, deviceID, m_running,
                   sources, bound, call, trace>>

(* run(): MIDIPortConnectSource on the handle the field holds now.         *)
RunBind(t) ==
    \E os \in OSResults :
        LET result == MIDIPortConnectSource(os, inputPort, sourceId)
        IN  /\ At(t, "run", "bind")
            /\ trace' = Append(trace, Event("MIDIPortConnectSource", sourceId, result))
            /\ bound' = IF result = "noErr" THEN bound \cup {sourceId} ELSE bound
            /\ Jump(t, [threads[t] EXCEPT !.pc = "setRunning", !.result = result])
            /\ UNCHANGED <<noteInput, phase, client, inputPort, Fields, sources, call>>

(* run(): m_running = true, or false when the OS refused.                  *)
RunSetRunning(t) ==
    /\ At(t, "run", "setRunning")
    /\ m_running' = (threads[t].result = "noErr")
    /\ Jump(t, [threads[t] EXCEPT !.fn = "none", !.pc = "done",
                                  !.result = IF threads[t].result = "noErr"
                                             THEN "Ok" ELSE "MidiFailedConnect"])
    /\ UNCHANGED <<noteInput, phase, client, inputPort, sourceId, deviceID, m_deviceID,
                   sources, bound, call, trace>>

(* The callback: removedObject == self->m_core->sourceId, after            *)
(* isConnected() answered true.                                            *)
CallbackCompare(t) ==
    /\ At(t, "callback", "compare")
    /\ Jump(t, IF threads[t].obj = sourceId
               THEN [threads[t] EXCEPT !.fn = "disconnect",
                                       !.pc = "isConnected.sourceId",
                                       !.ret = "callback"]
               ELSE [threads[t] EXCEPT !.pc = "notify"])
    /\ UNCHANGED <<noteInput, phase, client, inputPort, Fields, sources, bound, call, trace>>

(* The callback: m_availableDevicesChanged.notify().                       *)
CallbackNotify(t) ==
    /\ At(t, "callback", "notify")
    /\ trace' = Append(trace, Event("devicesChanged", threads[t].obj, "notify"))
    /\ Jump(t, [threads[t] EXCEPT !.fn = "none", !.pc = "done"])
    /\ UNCHANGED <<noteInput, phase, client, inputPort, Fields, sources, bound, call>>

(* The port after init() and a successful connect("0"), with MaxRef        *)
(* sources present and both threads outside the object.                    *)
InitConc ==
    /\ phase = "inited"
    /\ client = 1
    /\ inputPort \in PortRefs
    /\ sourceId = MaxRef
    /\ deviceID = 0
    /\ m_deviceID = <<"0">>
    /\ m_running = TRUE
    /\ sources = Descending(MaxRef)
    /\ bound = {MaxRef}
    /\ threads = [t \in Threads |-> Idle]
    /\ noteInput = NoteInputConstructed
    /\ trace = << [ev |-> "MIDIGetSource", obj |-> 0, res |-> "found",
                   sourceId |-> 0, m_deviceID |-> <<>>, m_running |-> FALSE],
                  [ev |-> "MIDIPortConnectSource", obj |-> MaxRef, res |-> "noErr",
                   sourceId |-> MaxRef, m_deviceID |-> <<"0">>, m_running |-> FALSE] >>
    /\ call = [op |-> "connect", arg |-> <<"0">>, ret |-> "Ok",
               pre |-> [sourceId |-> 0, m_deviceID |-> <<>>, m_running |-> FALSE,
                        client |-> 1, inputPort |-> inputPort, bound |-> {},
                        sources |-> sources],
               osU |-> "ok", osB |-> "ok"]

NextConc ==
    \/ CallerConnect
    \/ CallerDisconnect
    \/ CallbackRemoved
    \/ \E t \in Threads :
          \/ IsConnectedSourceId(t)
          \/ IsConnectedDeviceID(t)
          \/ StopUnbind(t)
          \/ StopClearRunning(t)
          \/ DisconnectClearSourceId(t)
          \/ DisconnectClearDeviceID(t)
          \/ ConnectHandles(t)
          \/ ConnectStoi(t)
          \/ ConnectGetSource(t)
          \/ ConnectCheckSource(t)
          \/ ConnectSetDeviceID(t)
          \/ RunBind(t)
          \/ RunSetRunning(t)
          \/ CallbackCompare(t)
          \/ CallbackNotify(t)

(* One method call on the caller thread against one source-removed         *)
(* notification, interleaved at every field access.                        *)
SpecConc == InitConc /\ [][NextConc]_vars

(* ------------------------- NotationNoteInput ---------------------------- *)
(* The methods of NotationNoteInput are operators over the value n of      *)
(* `noteInput`.  The engraving library, the undo stack and the interaction *)
(* are outside the file: of each call into them the model keeps the entry  *)
(* in n.log and the effect on the input state that the caller passes in.   *)

NoteEntryMethods == {"UNKNOWN", "STEPTIME", "REPITCH"}

DurationTypes == {"V_INVALID", "V_ZERO", "V_MEASURE", "V_QUARTER", "V_EIGHTH"}

AccidentalTypes == {"NONE", "SHARP"}

StaffGroups == {"STANDARD", "TAB", "PERCUSSION"}

(* Duration::isValid() and Duration::isZero().                             *)
isValid(d) == d # "V_INVALID"

isZero(d) == d = "V_ZERO"

NoteLog(n, ev) == [n EXCEPT !.log = Append(@, ev)]

isNoteInputMode(n) == n.is.noteEntryMode

notifyAboutStateChanged(n) == NoteLog(n, "stateChanged")

notifyNoteAddedChanged(n) == NoteLog(n, "noteAdded")

(* What InputState::update(selection) reads off a selection: a duration    *)
(* and whether the selected element is a rest; the accidental is reset.    *)
SelectionUpdates == [duration : DurationTypes, rest : BOOLEAN]

(* InputState::update(selection): it leaves the note-entry mode, the       *)
(* method, the slur and the string alone.                                  *)
InputStateUpdate(is, u) ==
    [is EXCEPT !.duration = u.duration, !.rest = u.rest, !.accidentalType = "NONE"]

updateInputState(n, u) ==
    notifyAboutStateChanged(
        [NoteLog(n, "InputState::update") EXCEPT !.is = InputStateUpdate(@, u)])

(* The subscription of the constructor to selectionChanged.                *)
onSelectionChanged(n, u) ==
    IF ~isNoteInputMode(n) THEN updateInputState(n, u) ELSE n

(* What a call into the interaction or the undo stack may bring back       *)
(* before it returns: nothing, or a selectionChanged notification with the *)
(* selection as the library then sees it.                                  *)
NoSelectionChange == [fires |-> FALSE, duration |-> "V_INVALID", rest |-> FALSE]

SelectionChanges ==
    {NoSelectionChange}
    \cup { [fires |-> TRUE, duration |-> u.duration, rest |-> u.rest] :
              u \in SelectionUpdates }

Deliver(n, sel) == IF sel.fires THEN onSelectionChanged(n, sel) ELSE n

(* INotationUndoStack: prepareChanges opens a command, commitChanges       *)
(* closes it; opening one while one is open, or closing one while none is, *)
(* is a misuse the stack remembers.  A commit may change the selection.    *)
prepareChanges(n) ==
    [NoteLog(n, "prepareChanges")
       EXCEPT !.undo = [open |-> @.open + 1, misused |-> @.misused \/ @.open > 0]]

commitChanges(n, sel) ==
    Deliver([NoteLog(n, "commitChanges")
               EXCEPT !.undo = IF @.open = 0
                               THEN [@ EXCEPT !.misused = TRUE]
                               ELSE [@ EXCEPT !.open = @ - 1]],
            sel)

startEdit(n) == prepareChanges(n)

(* apply(): commit, then show the chord or rest under the cursor, if any.  *)
apply(n, sel, cr) ==
    LET n1 == commitChanges(n, sel)
    IN  IF cr THEN NoteLog(n1, "showItem") ELSE n1

(* The durations a pad command may leave in the input state.               *)
PadDurations == {"V_QUARTER", "V_EIGHTH"}

(* A call into the score that edits it.                                    *)
Mutate(n, what) == NoteLog(n, what)

Begin(n, op) == [n EXCEPT !.op = op, !.log = <<>>]

(* addNote() that notifies before the edit is committed.                   *)
addNote_notifiesBeforeApply(n, sel, cr) ==
    LET n1 == startEdit(Begin(n, "addNote"))
        n2 == Mutate(n1, "cmdAddPitch")
        n3 == notifyAboutStateChanged(notifyNoteAddedChanged(n2))
    IN  apply(n3, sel, cr)

addNote(n, sel, cr) ==
    LET n1 == startEdit(Begin(n, "addNote"))
        n2 == Mutate(n1, "cmdAddPitch")
        n3 == apply(n2, sel, cr)
    IN  notifyAboutStateChanged(notifyNoteAddedChanged(n3))

padNote(n, pad, sel, cr) ==
    LET n1 == startEdit(Begin(n, "padNote"))
        n2 == [Mutate(n1, "padToggle") EXCEPT !.is.duration = pad]
        n3 == apply(n2, sel, cr)
    IN  notifyAboutStateChanged(n3)

putNote(n, sel, cr) ==
    LET n1 == startEdit(Begin(n, "putNote"))
        n2 == Mutate(n1, "putNote")
        n3 == apply(n2, sel, cr)
    IN  notifyAboutStateChanged(notifyNoteAddedChanged(n3))

removeNote(n, sel, cr) ==
    LET restMode == n.is.rest
        n1 == startEdit(Begin(n, "removeNote"))
        n2 == [n1 EXCEPT !.is.rest = ~restMode]
        n3 == Mutate(n2, "putNote")
        n4 == [n3 EXCEPT !.is.rest = restMode]
        n5 == apply(n4, sel, cr)
    IN  notifyAboutStateChanged(n5)

addTuplet(n, chordRest, sel, cr) ==
    LET n1 == startEdit(Begin(n, "addTuplet"))
        n2 == Mutate(n1, "expandVoice")
        n3 == IF chordRest THEN Mutate(Mutate(n2, "changeCRlen"), "addTuplet") ELSE n2
        n4 == apply(n3, sel, cr)
    IN  notifyAboutStateChanged(n4)

addTie(n, sel, cr) ==
    LET n1 == startEdit(Begin(n, "addTie"))
        n2 == Mutate(n1, "cmdAddTie")
        n3 == apply(n2, sel, cr)
    IN  notifyAboutStateChanged(n3)

doubleNoteInputDuration(n, pad, sel, cr) ==
    LET n1 == startEdit(Begin(n, "doubleNoteInputDuration"))
        n2 == [Mutate(n1, "cmdPadNoteIncreaseTAB") EXCEPT !.is.duration = pad]
        n3 == apply(n2, sel, cr)
    IN  notifyAboutStateChanged(n3)

halveNoteInputDuration(n, pad, sel, cr) ==
    LET n1 == startEdit(Begin(n, "halveNoteInputDuration"))
        n2 == [Mutate(n1, "cmdPadNoteDecreaseTAB") EXCEPT !.is.duration = pad]
        n3 == apply(n2, sel, cr)
    IN  notifyAboutStateChanged(n3)

(* The element types resolveNoteInputStartPosition() tells apart.          *)
ElementTypes == {"CHORD", "REST", "NOTE", "OTHER"}

NoElement == "nullptr"

(* resolveNoteInputStartPosition(): selected is selection().element(),     *)
(* firstChordRest is selection().firstChordRest(), lastSegment is the      *)
(* element of the input state's last segment on its track (NoElement also  *)
(* when there is no segment), searched and searchedStart are the results   *)
(* of searchNote() at the element's tick and at tick 0.  A chord is        *)
(* replaced by its selected or top note.                                   *)
resolveNoteInputStartPosition(selected, firstChordRest, lastSegment, searched, searchedStart) ==
    LET el1 == IF selected = NoElement THEN firstChordRest ELSE selected
        el2 == IF el1 = NoElement THEN lastSegment ELSE el1
        el3 == IF el2 = NoElement \/ el2 \notin {"CHORD", "REST", "NOTE"}
               THEN IF searched = NoElement THEN searchedStart ELSE searched
               ELSE el2
    IN  IF el3 = NoElement THEN NoElement
        ELSE IF el3 = "CHORD" THEN "NOTE"
        ELSE el3

(* Every start position the score can offer.                               *)
StartPositions ==
    { resolveNoteInputStartPosition(selected, firstChordRest, lastSegment,
                                    searched, searchedStart) :
         selected \in ElementTypes \cup {NoElement},
         firstChordRest \in {"CHORD", "REST", NoElement},
         lastSegment \in ElementTypes \cup {NoElement},
         searched \in {"NOTE", NoElement},
         searchedStart \in {"NOTE", NoElement} }

(* The strings a selected note of a tablature staff may sit on.            *)
NoteStrings == {0, 1}

(* startNoteInput() without the guard on the mode.                         *)
startNoteInput_noGuard(n, el, sel, group, noteString) ==
    LET n0 == Begin(n, "startNoteInput")
    IN  IF el = NoElement THEN n0
        ELSE LET n1 == Deliver(NoteLog(n0, "select"), sel)
                 is1 == n1.is
                 is2 == IF is1.noteEntryMethod = "UNKNOWN"
                        THEN [is1 EXCEPT !.noteEntryMethod = "STEPTIME"]
                        ELSE is1
                 d   == is2.duration
                 is3 == IF ~isValid(d) \/ isZero(d) \/ d = "V_MEASURE"
                        THEN [is2 EXCEPT !.duration = "V_QUARTER"]
                        ELSE is2
                 is4 == [is3 EXCEPT !.accidentalType = "NONE", !.rest = FALSE,
                                    !.noteEntryMode = TRUE]
                 is5 == IF group = "TAB"
                        THEN [is4 EXCEPT !.string = IF el = "NOTE" THEN noteString ELSE 0]
                        ELSE is4
                 n2 == NoteLog([n1 EXCEPT !.is = is5], "update")
             IN  NoteLog(notifyAboutStateChanged(n2), "showItem")

startNoteInput(n, el, sel, group, noteString) ==
    LET n0 == Begin(n, "startNoteInput")
    IN  IF isNoteInputMode(n) THEN n0
        ELSE IF el = NoElement THEN n0
        ELSE LET n1 == Deliver(NoteLog(n0, "select"), sel)
                 is1 == n1.is
                 is2 == IF is1.noteEntryMethod = "UNKNOWN"
                        THEN [is1 EXCEPT !.noteEntryMethod = "STEPTIME"]
                        ELSE is1
                 d   == is2.duration
                 is3 == IF ~isValid(d) \/ isZero(d) \/ d = "V_MEASURE"
                        THEN [is2 EXCEPT !.duration = "V_QUARTER"]
                        ELSE is2
                 is4 == [is3 EXCEPT !.accidentalType = "NONE", !.rest = FALSE,
                                    !.noteEntryMode = TRUE]
                 is5 == IF group = "TAB"
                        THEN [is4 EXCEPT !.string = IF el = "NOTE" THEN noteString ELSE 0]
                        ELSE is4
                 n2 == NoteLog([n1 EXCEPT !.is = is5], "update")
             IN  NoteLog(notifyAboutStateChanged(n2), "showItem")

endNoteInput(n, u) ==
    LET n0 == Begin(n, "endNoteInput")
    IN  IF ~isNoteInputMode(n) THEN n0
        ELSE LET n1 == [n0 EXCEPT !.is.noteEntryMode = FALSE]
                 n2 == IF n1.is.slur # 0 THEN [n1 EXCEPT !.is.slur = 0] ELSE n1
             IN  updateInputState(n2, u)

toggleNoteInputMethod(n, method) ==
    notifyAboutStateChanged(
        [Begin(n, "toggleNoteInputMethod") EXCEPT !.is.noteEntryMethod = method])

(* setAccidental(): toggleAccidental() of the library leaves the           *)
(* accidental asked for, or none when it was already set.                  *)
setAccidental(n, accidentalType) ==
    notifyAboutStateChanged(
        [Mutate(Begin(n, "setAccidental"), "toggleAccidental")
           EXCEPT !.is.accidentalType = IF @ = accidentalType THEN "NONE"
                                        ELSE accidentalType])

Slurs == {0, 1}

addSlur(n, slur) ==
    notifyAboutStateChanged([n EXCEPT !.is.slur = slur])

resetSlur(n) ==
    LET n0 == Begin(n, "resetSlur")
    IN  IF n0.is.slur = 0 THEN n0
        ELSE addSlur(NoteLog(n0, "deselect"), 0)

PortVars == <<phase, client, inputPort, sourceId, deviceID, m_deviceID, m_running,
              sources, bound, call, trace, threads>>

StartNoteInput ==
    \E el \in StartPositions, sel \in SelectionChanges, group \in StaffGroups,
       noteString \in NoteStrings :
        /\ noteInput' = startNoteInput(noteInput, el, sel, group, noteString)
        /\ UNCHANGED PortVars

EndNoteInput ==
    \E u \in SelectionUpdates :
        /\ noteInput' = endNoteInput(noteInput, u)
        /\ UNCHANGED PortVars

ToggleNoteInputMethod ==
    \E method \in NoteEntryMethods :
        /\ noteInput' = toggleNoteInputMethod(noteInput, method)
        /\ UNCHANGED PortVars

SetAccidental ==
    \E accidentalType \in AccidentalTypes :
        /\ noteInput' = setAccidental(noteInput, accidentalType)
        /\ UNCHANGED PortVars

AddSlur ==
    \E slur \in Slurs :
        /\ noteInput' = addSlur(Begin(noteInput, "addSlur"), slur)
        /\ UNCHANGED PortVars

ResetSlur ==
    /\ noteInput' = resetSlur(noteInput)
    /\ UNCHANGED PortVars

(* The interaction reports a changed selection between two operations.     *)
SelectionChanged ==
    \E u \in SelectionUpdates :
        /\ noteInput' = onSelectionChanged(Begin(noteInput, "selectionChanged"), u)
        /\ UNCHANGED PortVars

AddNote ==
    \E sel \in SelectionChanges, cr \in BOOLEAN :
        /\ noteInput' = addNote(noteInput, sel, cr)
        /\ UNCHANGED PortVars

PadNote ==
    \E pad \in PadDurations, sel \in SelectionChanges, cr \in BOOLEAN :
        /\ noteInput' = padNote(noteInput, pad, sel, cr)
        /\ UNCHANGED PortVars

PutNote ==
    \E sel \in SelectionChanges, cr \in BOOLEAN :
        /\ noteInput' = putNote(noteInput, sel, cr)
        /\ UNCHANGED PortVars

RemoveNote ==
    \E sel \in SelectionChanges, cr \in BOOLEAN :
        /\ noteInput' = removeNote(noteInput, sel, cr)
        /\ UNCHANGED PortVars

AddTuplet ==
    \E chordRest \in BOOLEAN, sel \in SelectionChanges, cr \in BOOLEAN :
        /\ noteInput' = addTuplet(noteInput, chordRest, sel, cr)
        /\ UNCHANGED PortVars

AddTie ==
    \E sel \in SelectionChanges, cr \in BOOLEAN :
        /\ noteInput' = addTie(noteInput, sel, cr)
        /\ UNCHANGED PortVars

DoubleNoteInputDuration ==
    \E pad \in PadDurations, sel \in SelectionChanges, cr \in BOOLEAN :
        /\ noteInput' = doubleNoteInputDuration(noteInput, pad, sel, cr)
        /\ UNCHANGED PortVars

HalveNoteInputDuration ==
    \E pad \in PadDurations, sel \in SelectionChanges, cr \in BOOLEAN :
        /\ noteInput' = halveNoteInputDuration(noteInput, pad, sel, cr)
        /\ UNCHANGED PortVars

NextNote ==
    \/ StartNoteInput
    \/ EndNoteInput
    \/ ToggleNoteInputMethod
    \/ SetAccidental
    \/ AddSlur
    \/ ResetSlur
    \/ SelectionChanged
    \/ AddNote
    \/ PadNote
    \/ PutNote
    \/ RemoveNote
    \/ AddTuplet
    \/ AddTie
    \/ DoubleNoteInputDuration
    \/ HalveNoteInputDuration

(* A freshly opened score, the MIDI port as constructed with no source     *)
(* plugged in.                                                             *)
InitNote == Init /\ sources = <<>>

SpecNote == InitNote /\ [][NextNote]_vars

(* ------------------------------ claims --------------------------------- *)

PreConnected == call.pre.sourceId # 0 /\ call.pre.m_deviceID # <<>>

Events(ev) == { i \in 1..Len(trace) : trace[i].ev = ev }

HandlesMissing == client = 0 \/ inputPort = 0

(* C1: whenever the port is running it holds a non-null source handle and  *)
(* a non-empty device identifier.                                          *)
C1_RunningImpliesConnected ==
    m_running => sourceId # 0 /\ m_deviceID # <<>>

C1_Witness ==
    /\ call.op = "disconnect" /\ PreConnected /\ call.pre.m_running
    /\ ~m_running

(* C2: when the removed object is the connected source, every observer of  *)
(* devices-changed runs after the disconnect: it sees no source handle, no *)
(* device id and running false, and the notification does fire.            *)
C2_DisconnectBeforeNotify ==
    (call.op = "sourceRemoved" /\ PreConnected /\ call.arg[1] = call.pre.sourceId)
    => /\ Events("devicesChanged") # {}
       /\ \A i \in Events("devicesChanged") :
             /\ trace[i].sourceId = 0
             /\ trace[i].m_deviceID = <<>>
             /\ ~trace[i].m_running
       /\ ~isConnected(Self) /\ ~m_running

C2_Witness ==
    /\ call.op = "sourceRemoved" /\ PreConnected /\ call.pre.m_running
    /\ call.arg[1] = call.pre.sourceId
    /\ Events("devicesChanged") # {}

(* C3 (as claimed): the input port is bound at the OS level to at most one *)
(* source.                                                                 *)
C3_AtMostOneBound == Cardinality(bound) <= 1

(* C4: connect() on a connected port unbinds the old source first, and the *)
(* source lookup and the bind of the new connection happen only once       *)
(* running, the source handle and the device id have been cleared.         *)
C4_DisconnectBeforeConnect ==
    (call.op = "connect" /\ PreConnected)
    => /\ Len(trace) >= 1
       /\ trace[1].ev = "MIDIPortDisconnectSource"
       /\ trace[1].obj = call.pre.sourceId
       /\ \A i \in Events("MIDIGetSource") \cup Events("stoi") :
             /\ i > 1
             /\ trace[i].sourceId = 0
             /\ trace[i].m_deviceID = <<>>
             /\ ~trace[i].m_running
       /\ \A i \in Events("MIDIPortConnectSource") :
             /\ \E j \in Events("MIDIGetSource") : j < i
             /\ ~trace[i].m_running

C4_Witness ==
    /\ call.op = "connect" /\ PreConnected /\ call.pre.m_running
    /\ call.ret = "Ok"
    /\ sourceId # call.pre.sourceId
    /\ Events("MIDIPortConnectSource") # {}

(* C5: isConnected() is false right after construction and right after     *)
(* every disconnect(), whatever the OS answered to the unbind.             *)
C5_NotConnectedAfterDisconnect ==
    call.op \in {"CoreMidiInPort", "disconnect"} => ~isConnected(Self)

C5_Witness ==
    /\ call.op = "disconnect" /\ PreConnected
    /\ Events("MIDIPortDisconnectSource") # {}
    /\ trace[1].res = "error"

(* C6: connect() returns success exactly when the OS resolved a source and *)
(* the bind succeeded, and then the port is connected under the id passed  *)
(* and running.                                                            *)
C6_ConnectSuccess ==
    call.op = "connect"
    => /\ call.ret = "Ok"
          <=> /\ \E i \in Events("MIDIGetSource") : trace[i].res = "found"
              /\ \E i \in Events("MIDIPortConnectSource") : trace[i].res = "noErr"
       /\ call.ret = "Ok"
          => /\ isConnected(Self)
             /\ m_deviceID = call.arg
             /\ m_running
             /\ sourceId = MIDIGetSource(sources, stoi(call.arg).val)

C6_Witness ==
    /\ call.op = "connect" /\ call.ret = "Ok" /\ call.arg = <<"1", "x">>
    /\ m_running

(* C7: connect() with an integer id at which the OS has no source returns  *)
(* MidiFailedConnect and leaves the port not connected and not running.    *)
C7_NoSourceAtIndex ==
    (/\ call.op = "connect"
     /\ stoi(call.arg).ok
     /\ MIDIGetSource(call.pre.sources, stoi(call.arg).val) = 0)
    => /\ call.ret = "MidiFailedConnect"
       /\ ~isConnected(Self)
       /\ ~m_running

C7_Witness ==
    /\ call.op = "connect" /\ call.arg = <<"9", "9">>
    /\ PreConnected /\ call.pre.m_running
    /\ Len(call.pre.sources) = 2
    /\ Events("MIDIGetSource") # {}

(* C8: once init() has failed to create the client or the input port, the  *)
(* port is never connected nor running, and every connect() returns an     *)
(* error.                                                                  *)
C8_FailedInitNeverConnects ==
    (phase = "inited" /\ HandlesMissing)
    => /\ ~isConnected(Self)
       /\ ~m_running
       /\ sourceId = 0
       /\ call.op = "connect" => call.ret \in {"MidiFailedConnect", "MidiNotConnected"}

C8_Witness ==
    /\ phase = "inited" /\ client # 0 /\ inputPort = 0
    /\ call.op = "connect" /\ call.arg = <<"0">>
    /\ Len(sources) > 0

(* C9 (as claimed): connect() without a client or an input port fails with *)
(* the NotConnected error.                                                 *)
C9_HandlesMissingNotConnected ==
    (call.op = "connect" /\ HandlesMissing) => call.ret = "MidiNotConnected"

(* C9 (amended): connect() without a client or an input port fails with    *)
(* the MidiFailedConnect error.                                            *)
C9_HandlesMissingFailedConnect ==
    (call.op = "connect" /\ HandlesMissing) => call.ret = "MidiFailedConnect"

C9_Witness ==
    /\ call.op = "connect" /\ client # 0 /\ inputPort = 0
    /\ call.arg = <<"a">>

(* C10 (as claimed): connect() with an id that is not an integer returns   *)
(* MidiFailedConnect to the caller; no exception escapes.                  *)
C10_InvalidIdReturnsError ==
    (call.op = "connect" /\ ~stoi(call.arg).ok) => call.ret = "MidiFailedConnect"

(* C11: stop() on a port that is not connected leaves the source handle,   *)
(* the device id, the running flag and the OS bindings as they were and    *)
(* issues no MIDIPortDisconnectSource.                                     *)
C11_StopNotConnectedNoOp ==
    (call.op = "stop" /\ ~PreConnected)
    => /\ sourceId = call.pre.sourceId
       /\ m_deviceID = call.pre.m_deviceID
       /\ m_running = call.pre.m_running
       /\ bound = call.pre.bound
       /\ Events("MIDIPortDisconnectSource") = {}
       /\ call.ret = "void"

C11_Witness ==
    /\ call.op = "stop" /\ ~PreConnected
    /\ inputPort # 0 /\ bound # {}
    /\ Events("LOGE") # {}

IsReceive == call.op \in {"receiveBlock", "readBlock"}

(* Word count of an event packet, byte count of a MIDI 1.0 packet.         *)
SizeOf(packet) ==
    IF call.op = "receiveBlock" THEN packet.wordCount ELSE packet.length

PayloadOf(packet) ==
    IF call.op = "receiveBlock" THEN packet.words ELSE packet.data

InRange(packet) == SizeOf(packet) >= 1 /\ SizeOf(packet) <= 4

TooLong(packet) == SizeOf(packet) > 4

RECURSIVE DeliveredFrom(_)
(* The events handed to doEventsRecived in entries i.. of the trace, in    *)
(* the order they were handed over.                                        *)
DeliveredFrom(i) ==
    IF i > Len(trace) THEN <<>>
    ELSE (IF trace[i].ev = "doEventsRecived" THEN trace[i].res ELSE <<>>)
         \o DeliveredFrom(i + 1)

RECURSIVE IsSubSeq(_, _)
IsSubSeq(a, b) ==
    IF a = <<>> THEN TRUE
    ELSE IF b = <<>> THEN FALSE
    ELSE IF Head(a) = Head(b) THEN IsSubSeq(Tail(a), Tail(b))
    ELSE IsSubSeq(a, Tail(b))

C13_UnsupportedSizes ==
    IsReceive
    => LET long == SelectSeq(call.arg, TooLong)
           warn == SelectSeq(trace, LAMBDA t : t.ev = "LOGW")
           out  == DeliveredFrom(1)
       IN  /\ Len(warn) = Len(long)
           /\ \A k \in 1..Len(long) : warn[k].obj = SizeOf(long[k])
           /\ Len(out) <= Len(SelectSeq(call.arg, InRange))
           /\ \A k \in 1..Len(out) :
                 \E j \in 1..Len(call.arg) :
                    /\ InRange(call.arg[j])
                    /\ out[k][1] = call.arg[j].timeStamp
           /\ Events("doEventsRecived") # {}
           /\ call.ret = "void"

C13_Witness ==
    /\ IsReceive
    /\ Len(call.arg) = 3
    /\ SizeOf(call.arg[1]) = 2 /\ SizeOf(call.arg[2]) = 0 /\ SizeOf(call.arg[3]) = 6
    /\ Len(DeliveredFrom(1)) = 1
    /\ Cardinality(Events("LOGW")) = 1

(* C14: one callback invocation makes one call of the consumer, as its     *)
(* last step, with events in the order of their packets and only events    *)
(* of this batch.                                                          *)
C14_SingleOrderedDelivery ==
    IsReceive
    => LET ok       == SelectSeq(call.arg, InRange)
           expected == [k \in 1..Len(ok) |->
                          <<ok[k].timeStamp, [data |-> PayloadOf(ok[k])]>>]
       IN  /\ Cardinality(Events("doEventsRecived")) = 1
           /\ trace[Len(trace)].ev = "doEventsRecived"
           /\ IsSubSeq(trace[Len(trace)].res, expected)
           /\ trace[Len(trace)].obj = Len(trace[Len(trace)].res)

C14_Witness ==
    /\ IsReceive
    /\ Len(call.arg) = 3
    /\ SizeOf(call.arg[1]) = 2 /\ SizeOf(call.arg[2]) = 5 /\ SizeOf(call.arg[3]) = 1
    /\ Len(trace) = 2
    /\ Len(trace[2].res) = 2
    /\ trace[2].res[1][1] # trace[2].res[2][1]

NameLookupOk(ref) ==
    \E i \in Events("MIDIObjectGetStringProperty") :
        trace[i].obj = ref /\ trace[i].res = "noErr"

AllNamesOk == [names |-> [r \in Refs |-> "ok"], garbage |-> <<>>]

(* C15 (as claimed): devices() returns, in increasing index order, one     *)
(* entry (id = decimal index, name = display name) for each source whose   *)
(* name lookup succeeds, skipping the others; empty without sources.       *)
C15_DevicesList ==
    call.op = "devices"
    => LET tbl   == call.pre.sources
           named == SelectSeq([i \in 1..Len(tbl) |-> i],
                              LAMBDA i : NameLookupOk(tbl[i]))
       IN  /\ Len(call.ret) = Len(named)
           /\ \A k \in 1..Len(named) :
                 /\ stoi(call.ret[k].id).ok
                 /\ stoi(call.ret[k].id).val = named[k] - 1
                 /\ \A j \in 1..Len(call.ret[k].id) : call.ret[k].id[j] \in Digits
                 /\ call.ret[k].name = DisplayName(tbl[named[k]])

(* C16: the id of every entry of devices() leads connect() back to the     *)
(* source the entry was made from: std::stoi of the id is the index of     *)
(* that source, connect(id) looks up that very source, and after a         *)
(* successful connect deviceID() is the id.                                *)
C16_IdRoundTrip ==
    /\ call.op = "devices"
       => LET made == SelectSeq(trace, LAMBDA t : t.ev = "CFStringGetCString")
          IN  /\ Len(made) = Len(call.ret)
              /\ \A k \in 1..Len(call.ret) :
                    /\ stoi(call.ret[k].id).ok
                    /\ MIDIGetSource(call.pre.sources, stoi(call.ret[k].id).val)
                       = made[k].obj
    /\ (call.op = "connect" /\ ~HandlesMissing)
       => LET listed == devices(Self, AllNamesOk).ret
          IN  \A k \in 1..Len(listed) :
                 listed[k].id = call.arg
                 => /\ \E i \in Events("MIDIGetSource") : trace[i].res = "found"
                    /\ sourceId # 0
                    /\ DisplayName(sourceId) = listed[k].name
                    /\ call.ret = "Ok" => m_deviceID = listed[k].id

C16_Witness ==
    /\ call.op = "connect" /\ call.arg = <<"1">> /\ call.ret = "Ok"
    /\ Len(sources) = 2
    /\ sourceId = sources[2]
    /\ devices(Self, AllNamesOk).ret[2].id = <<"1">>

(* C20 (as claimed): devices() asks the OS only for the source indices     *)
(* 0 .. count-1.                                                           *)
C20_EnumeratesExactlyCount ==
    call.op = "devices"
    => \A i \in Events("MIDIGetSource") :
          trace[i].obj >= 0 /\ trace[i].obj < Len(call.pre.sources)

(* C19: the destructor disconnects a connected port (unbind issued,        *)
(* running cleared) before it releases anything, releases each handle that *)
(* was created exactly once, the port before the client, and releases no   *)
(* handle that was never created.                                          *)
C19_DestructorOrder ==
    call.op = "~CoreMidiInPort"
    => LET unbinds == Events("MIDIPortDisconnectSource")
           ports   == Events("MIDIPortDispose")
           clients == Events("MIDIClientDispose")
       IN  /\ PreConnected
              => /\ unbinds = {1}
                 /\ trace[1].obj = call.pre.sourceId
                 /\ ~m_running
                 /\ \A i \in ports \cup clients :
                       /\ ~trace[i].m_running
                       /\ trace[i].sourceId = 0
                       /\ trace[i].m_deviceID = <<>>
           /\ ~PreConnected => unbinds = {}
           /\ Cardinality(ports) = IF call.pre.inputPort # 0 THEN 1 ELSE 0
           /\ Cardinality(clients) = IF call.pre.client # 0 THEN 1 ELSE 0
           /\ \A i \in ports : trace[i].obj = call.pre.inputPort
           /\ \A i \in clients : trace[i].obj = call.pre.client
           /\ \A i \in ports, j \in clients : i < j

C19_Witness ==
    /\ call.op = "~CoreMidiInPort"
    /\ PreConnected /\ call.pre.m_running
    /\ Len(trace) = 3
    /\ trace[3].ev = "MIDIClientDispose"

(* The notification the callback received in the last operation.           *)
LastNotification ==
    CASE call.op = "notification" -> call.arg[1]
      [] call.op = "sourceAdded" -> AddRemove("kMIDIMsgObjectAdded", call.arg[1])
      [] call.op = "sourceRemoved" -> AddRemove("kMIDIMsgObjectRemoved", call.arg[1])

(* A well-formed source add or remove, or a well-formed change of the      *)
(* display name or name of a device or source.                             *)
Relevant(n) ==
    \/ /\ n.messageID \in {"kMIDIMsgObjectAdded", "kMIDIMsgObjectRemoved"}
       /\ n.sizeOk
       /\ n.childType = "kMIDIObjectType_Source"
    \/ /\ n.messageID = "kMIDIMsgPropertyChanged"
       /\ n.sizeOk
       /\ n.objectType \in {"kMIDIObjectType_Device", "kMIDIObjectType_Source"}
       /\ n.propertyName \in {"kMIDIPropertyDisplayName", "kMIDIPropertyName"}

(* C17: devices-changed fires exactly once for a relevant notification;    *)
(* for any other notification it does not fire and the connection is left  *)
(* as it was.                                                              *)
C17_DevicesChangedExactlyWhenRelevant ==
    call.op \in {"notification", "sourceAdded", "sourceRemoved"}
    => LET n == LastNotification
       IN  /\ Cardinality(Events("devicesChanged")) = IF Relevant(n) THEN 1 ELSE 0
           /\ ~Relevant(n)
              => /\ sourceId = call.pre.sourceId
                 /\ m_deviceID = call.pre.m_deviceID
                 /\ m_running = call.pre.m_running
                 /\ bound = call.pre.bound
                 /\ Events("MIDIPortDisconnectSource") = {}

C17_Witness ==
    /\ call.op = "notification"
    /\ call.arg[1].messageID = "kMIDIMsgObjectRemoved"
    /\ call.arg[1].sizeOk
    /\ call.arg[1].childType = "kMIDIObjectType_Device"
    /\ call.arg[1].child = sourceId
    /\ PreConnected /\ m_running
    /\ Events("devicesChanged") = {}

(* The handle each bind and unbind call of the trace was issued with.      *)
IssuedHandles ==
    { trace[i].obj : i \in Events("MIDIPortConnectSource")
                             \cup Events("MIDIPortDisconnectSource") }

(* C18: with the notification callback interleaved with a caller-thread    *)
(* connect() or disconnect() at every field access and OS call, running is *)
(* never true while isConnected() is false, and no bind or unbind call is  *)
(* issued with a source handle that has been cleared.                      *)
C18_SafeUnderInterleaving ==
    /\ m_running => isConnected(Self)
    /\ 0 \notin IssuedHandles

(* The last operation was a connect() that resolved a source and whose     *)
(* bind call the OS refused.                                               *)
BindFailedInConnect ==
    /\ call.op = "connect"
    /\ \E i \in Events("MIDIGetSource") : trace[i].res = "found"
    /\ \E i \in Events("MIDIPortConnectSource") : trace[i].res # "noErr"

(* The last operation is one that may clear the connection identity:       *)
(* disconnect(), connect(), the destructor, or the removal of the source   *)
(* the port was connected to.                                              *)
MayClearIdentity ==
    \/ call.op \in {"disconnect", "connect", "~CoreMidiInPort"}
    \/ call.op = "sourceRemoved" /\ call.arg[1] = call.pre.sourceId

(* C21: a connect(id) whose bind call fails returns MidiFailedConnect with *)
(* running false but leaves the port connected under id; the identity of a *)
(* connected port is then kept by every operation other than disconnect(), *)
(* connect() and the removal of its source.                                *)
C21_FailedBindKeepsIdentity ==
    /\ BindFailedInConnect
       => /\ call.ret = "MidiFailedConnect"
          /\ ~m_running
          /\ isConnected(Self)
          /\ m_deviceID = call.arg
    /\ (PreConnected /\ ~MayClearIdentity)
       => /\ sourceId = call.pre.sourceId
          /\ m_deviceID = call.pre.m_deviceID

C21_Witness ==
    /\ BindFailedInConnect
    /\ call.ret = "MidiFailedConnect"
    /\ isConnected(Self) /\ ~m_running
    /\ m_deviceID = <<"1">>

EditCommands ==
    {"addNote", "padNote", "putNote", "removeNote", "addTuplet", "addTie",
     "doubleNoteInputDuration", "halveNoteInputDuration"}

ScoreEdits ==
    {"cmdAddPitch", "padToggle", "putNote", "expandVoice", "changeCRlen",
     "addTuplet", "cmdAddTie", "cmdPadNoteIncreaseTAB", "cmdPadNoteDecreaseTAB"}

(* Where in the log of the last note-input operation the entry ev stands.  *)
NoteEvents(ev) == { i \in 1..Len(noteInput.log) : noteInput.log[i] = ev }

EditPositions == { i \in 1..Len(noteInput.log) : noteInput.log[i] \in ScoreEdits }

(* C22: each editing command prepares the undo stack once, edits the       *)
(* score, commits once, and notifies stateChanged only after the commit,   *)
(* with noteAdded (addNote, putNote) between the commit and the command's  *)
(* stateChanged; over any sequence of commands no prepare is nested and    *)
(* none is left open.                                                      *)
C22_PrepareEditCommitNotify ==
    /\ noteInput.undo.open = 0
    /\ ~noteInput.undo.misused
    /\ noteInput.op \in EditCommands
       => LET P == NoteEvents("prepareChanges")
              C == NoteEvents("commitChanges")
              S == NoteEvents("stateChanged")
              A == NoteEvents("noteAdded")
          IN  /\ Cardinality(P) = 1
              /\ Cardinality(C) = 1
              /\ EditPositions # {}
              /\ \A p \in P, e \in EditPositions, c \in C : p < e /\ e < c
              /\ S # {}
              /\ noteInput.log[Len(noteInput.log)] = "stateChanged"
              /\ \A c \in C, n \in S : c < n
              /\ noteInput.op \in {"addNote", "putNote"}
                 => /\ Cardinality(A) = 1
                    /\ \A c \in C, a \in A : c < a /\ a < Len(noteInput.log)

C22_Witness ==
    /\ noteInput.op = "addNote"
    /\ noteInput.is.noteEntryMode
    /\ noteInput.log = <<"prepareChanges", "cmdAddPitch", "commitChanges",
                         "showItem", "noteAdded", "stateChanged">>

(* The step is a call of the method op (every method names itself in the   *)
(* object it leaves).                                                      *)
Calls(op) == noteInput' # noteInput /\ noteInput'.op = op

(* The operation of this step left the input state as it was and notified  *)
(* nobody of a state change.                                               *)
NoEffect ==
    /\ noteInput'.is = noteInput.is
    /\ \A i \in 1..Len(noteInput'.log) : noteInput'.log[i] # "stateChanged"

(* C23: startNoteInput() in note-entry mode and endNoteInput() outside it   *)
(* change no input state and notify nothing; endNoteInput() in the mode    *)
(* leaves the mode off and the slur cleared; a startNoteInput() that       *)
(* enters the mode leaves rest false, accidental NONE, a method other than *)
(* UNKNOWN and a valid, non-zero, non-measure duration.                    *)
C23_GuardedModeToggle ==
    [][ /\ (Calls("startNoteInput") /\ isNoteInputMode(noteInput)) => NoEffect
        /\ (Calls("endNoteInput") /\ ~isNoteInputMode(noteInput)) => NoEffect
        /\ (Calls("endNoteInput") /\ isNoteInputMode(noteInput))
           => /\ ~noteInput'.is.noteEntryMode
              /\ noteInput'.is.slur = 0
        /\ (Calls("startNoteInput") /\ ~isNoteInputMode(noteInput)
                                    /\ isNoteInputMode(noteInput'))
           => /\ ~noteInput'.is.rest
              /\ noteInput'.is.accidentalType = "NONE"
              /\ noteInput'.is.noteEntryMethod # "UNKNOWN"
              /\ isValid(noteInput'.is.duration)
              /\ ~isZero(noteInput'.is.duration)
              /\ noteInput'.is.duration # "V_MEASURE"
      ]_vars

(* startNoteInput() was called in note-entry mode, with a slur and an      *)
(* accidental set, and returned at its guard.                              *)
C23_Witness ==
    /\ noteInput.op = "startNoteInput"
    /\ noteInput.is.noteEntryMode
    /\ noteInput.is.accidentalType = "SHARP"
    /\ noteInput.is.slur # 0
    /\ noteInput.log = <<>>

====
